---------------------------- MODULE Spec2Model ----------------------------
(***************************************************************************)
(* Pattern classification and embedding engine of custom_embeddings.      *)
(*                                                                         *)
(* Text is modelled character by character: a string is a sequence of      *)
(* one-character strings, a regex is a sequence of regex tokens, a utility *)
(* name is a sequence of code points (so that Python's string order can be *)
(* computed).  The pattern store is the `patterns` table of SQLite, kept   *)
(* as the sequence of its rows in rowid order.  The scripts that ingest    *)
(* patterns (llm_parser.py, interactive_parser.py, add_pattern.py) advance *)
(* one prompt or one log line per step.                                    *)
(***************************************************************************)
EXTENDS Integers, Sequences, FiniteSets

VARIABLES
    store,                \* rows of table `patterns`, in rowid order
    clock,                \* ghost: number of INSERTs executed so far
    _patterns,            \* LLMParser._patterns: None or the cached list
    stale,                \* ghost: a row was deleted after the cache was loaded
    caller,               \* which classifier ran last: "none", "parse_line", "process_unprocessed_log"
    line,                 \* the line given to the last classification
    patterns,             \* the list the last classification iterated over
    matching_pattern,     \* result of the last classification (None or a pattern)
    warnings,             \* regexes named by the warnings the last classification printed
    _utility_mapping,     \* EmbeddingGenerator._utility_mapping (None before construction)
    _patterns_by_utility, \* EmbeddingGenerator._patterns_by_utility, in dict insertion order
    snapshot,             \* ghost: the table the EmbeddingGenerator was constructed from
    log_content,          \* argument of the last generate_embedding call (None before one)
    embedding,            \* result of the last generate_embedding call (None before one)
    issued,               \* ghost: the ids add_pattern returned so far, in call order
    reviewed,             \* ghost: stamps of the rows a mark_reviewed call addressed
    deleted,              \* ghost: stamps of the rows a delete_pattern call removed
    program,              \* the script that runs: "none", "llm_parser", "interactive_parser", "add_pattern"
    pc,                   \* the statement the script waits at
    logs,                 \* rows of table `logs` of LogStorage: id, log, processed
    log_file,             \* local `log`: the LogFile being processed (None between logs)
    line_num,             \* index into log.log.splitlines() of the line reached
    new_patterns,         \* process_unprocessed_log: regexes created in this file
    entered_regex,        \* local `regex`: the regex being validated (None when there is none)
    writes,               \* ghost: the add_pattern calls made while processing the current log
    override,             \* ghost: 'y' was given to "Use this non-matching pattern anyway?"
    asked,                \* ghost: the last line step asked for a new pattern
    columns               \* column names of table `patterns`, in order (empty: no such table)

vars == <<store, clock, _patterns, stale, caller, line, patterns, matching_pattern, warnings, _utility_mapping, _patterns_by_utility, snapshot, log_content, embedding, issued, reviewed, deleted, program, pc, logs, log_file, line_num, new_patterns, entered_regex, writes, override, asked, columns>>

classifyVars == <<caller, line, patterns, matching_pattern, warnings>>

embedVars == <<_utility_mapping, _patterns_by_utility, snapshot, log_content, embedding>>

auditVars == <<reviewed, deleted>>

sessionVars == <<program, pc, logs, log_file, line_num, new_patterns, entered_regex, writes, override, asked>>

\* Optional values: None is the empty sequence, a present value x is <<x>>
None == <<>>

Some(x) == <<x>>

Get(o) == o[1]

-----------------------------------------------------------------------------
(* Bounds of the model *)

\* INSERTs into the pattern table in one behaviour of Spec
MaxAdds == 3

\* rows of the pattern table an EmbeddingGenerator is built from (SpecEmbed)
MaxPatterns == 2

\* characters of a log text (SpecEmbed)
MaxLogLen == 3

\* rows of the pattern table the utility index is built from (SpecIndex)
MaxIndexPatterns == 3

-----------------------------------------------------------------------------
(* Text *)

NL == "\n"

\* characters str.strip() removes that occur in the modelled texts
Whitespace == {" ", NL}

RECURSIVE splitlines_from(_, _, _)
splitlines_from(s, i, cur) ==
    IF i > Len(s) THEN (IF cur = <<>> THEN <<>> ELSE <<cur>>)
    ELSE IF s[i] = NL THEN <<cur>> \o splitlines_from(s, i + 1, <<>>)
    ELSE splitlines_from(s, i + 1, Append(cur, s[i]))

\* str.splitlines(): the lines of s without their line breaks; a final line
\* break opens no further line
splitlines(s) == splitlines_from(s, 1, <<>>)

RECURSIVE lstrip(_)
lstrip(s) == IF s # <<>> /\ Head(s) \in Whitespace THEN lstrip(Tail(s)) ELSE s

RECURSIVE rstrip(_)
rstrip(s) == IF s # <<>> /\ s[Len(s)] \in Whitespace THEN rstrip(SubSeq(s, 1, Len(s) - 1)) ELSE s

\* str.strip()
strip(s) == rstrip(lstrip(s))

-----------------------------------------------------------------------------
(* Regular expressions: the tokens ^ $ . ( ) and literal characters *)

RECURSIVE paren_depth(_, _, _)
paren_depth(regex, k, depth) ==
    IF k > Len(regex) THEN depth
    ELSE IF regex[k] = "(" THEN paren_depth(regex, k + 1, depth + 1)
    ELSE IF regex[k] = ")" THEN (IF depth = 0 THEN 0 - 1 ELSE paren_depth(regex, k + 1, depth - 1))
    ELSE paren_depth(regex, k + 1, depth)

\* re.compile succeeds (raises no re.error): every group is closed
re_compile(regex) == paren_depth(regex, 1, 0) = 0

RECURSIVE match_from(_, _, _, _)
match_from(regex, k, s, pos) ==
    IF k > Len(regex) THEN TRUE
    ELSE IF regex[k] \in {"(", ")"} THEN match_from(regex, k + 1, s, pos)
    ELSE IF regex[k] = "^" THEN pos = 0 /\ match_from(regex, k + 1, s, pos)
    ELSE IF regex[k] = "$" THEN (pos = Len(s) \/ (pos = Len(s) - 1 /\ s[Len(s)] = NL)) /\ match_from(regex, k + 1, s, pos)
    ELSE IF regex[k] = "." THEN pos < Len(s) /\ s[pos + 1] # NL /\ match_from(regex, k + 1, s, pos + 1)
    ELSE pos < Len(s) /\ s[pos + 1] = regex[k] /\ match_from(regex, k + 1, s, pos + 1)

\* a plausible other test, re.search: the regex matches at some position of s
re_search(regex, s) ==
    IF ~re_compile(regex) THEN "error"
    ELSE IF \E p \in 0..Len(s) : match_from(regex, 1, s, p) THEN "match"
    ELSE "nomatch"

\* re.match(regex, s): "error" when the regex does not compile, else whether the
\* regex matches at the start of s
re_match(regex, s) ==
    IF ~re_compile(regex) THEN "error"
    ELSE IF match_from(regex, 1, s, 0) THEN "match"
    ELSE "nomatch"

-----------------------------------------------------------------------------
(* Inputs: regexes, lines and utility names the operations are called with *)

\* ^a
RegexA == <<"^", "a">>

\* ^a$
RegexAOnly == <<"^", "a", "$">>

\* ^(.)
RegexAny == <<"^", "(", ".", ")">>

\* (a    -- an unclosed group, re.error
RegexUnclosed == <<"(", "a">>

Regexes == {RegexA, RegexAOnly, RegexAny, RegexUnclosed}

Lines == {<<"a">>, <<"a", "b">>, <<"b">>}

\* "gcc", "make", "npm", "gc" as code points
Gcc == <<103, 99, 99>>

Make == <<109, 97, 107, 101>>

Npm == <<110, 112, 109>>

Gc == <<103, 99>>

\* (regex, utility_name, is_error) triples proposed to the store in Spec
Proposals == {<<RegexA, Gcc, TRUE>>, <<RegexAny, Make, FALSE>>, <<RegexUnclosed, Gcc, FALSE>>}

-----------------------------------------------------------------------------
(* LogPattern and LogPatternStore *)

\* a LogPattern built from a table row; stamp is a ghost field, the number of
\* the INSERT that persisted the row
LogPattern(id, regex, utility_name, is_error, need_reviewing, stamp) ==
    [id |-> id, regex |-> regex, utility_name |-> utility_name, is_error |-> is_error, need_reviewing |-> need_reviewing, stamp |-> stamp]

\* a plausible other matches: a pattern that needs review matches nothing
matches_reviewed_only(pattern, s) == ~pattern.need_reviewing /\ re_match(pattern.regex, s) = "match"

\* LogPattern.matches: bool(re.match(regex, line)), False on re.error
matches(pattern, s) == re_match(pattern.regex, s) = "match"

\* whether LogPattern.matches lets re.error escape to its caller: it catches it
matches_raises(pattern, s) == FALSE

\* the columns of the table _init_db creates
CurrentColumns == <<"id", "regex", "utility_name", "is_error", "need_reviewing">>

\* a plausible other rowid rule: the smallest rowid not in use
next_rowid_smallest_free(rows) == CHOOSE n \in 1..(Len(rows) + 1) : (\A i \in DOMAIN rows : rows[i].id # n) /\ (\A m \in 1..(n - 1) : \E i \in DOMAIN rows : rows[i].id = m)

\* the rowid SQLite gives an INSERT into a table with INTEGER PRIMARY KEY and no
\* AUTOINCREMENT: one more than the largest rowid in the table, 1 when it is empty
next_rowid(rows) == IF rows = <<>> THEN 1 ELSE rows[Len(rows)].id + 1

RECURSIVE insert_row(_, _)
insert_row(rows, row) ==
    IF rows = <<>> THEN <<row>>
    ELSE IF rows[Len(rows)].id < row.id THEN Append(rows, row)
    ELSE Append(insert_row(SubSeq(rows, 1, Len(rows) - 1), row), rows[Len(rows)])

\* the table after LogPatternStore.add_pattern: the new row at its rowid position
add_pattern(rows, regex, utility_name, is_error, need_reviewing, stamp) ==
    insert_row(rows, LogPattern(next_rowid(rows), regex, utility_name, is_error, need_reviewing, stamp))

\* LogPatternStore.get_all_patterns: SELECT * walks the table in rowid order
get_all_patterns == store

\* the table after LogPatternStore.delete_pattern
delete_pattern(rows, pattern_id) == SelectSeq(rows, LAMBDA r : r.id # pattern_id)

-----------------------------------------------------------------------------
(* Line classification *)

\* a plausible other loop: keeps scanning and returns the last match
RECURSIVE parse_line_last(_, _, _, _)
parse_line_last(pats, k, s, warned) ==
    IF k = 0 THEN [pattern |-> None, warnings |-> warned]
    ELSE IF matches(pats[k], s) THEN [pattern |-> Some(pats[k]), warnings |-> warned]
    ELSE parse_line_last(pats, k - 1, s, warned)

RECURSIVE parse_line_from(_, _, _, _)
parse_line_from(pats, k, s, warned) ==
    IF k > Len(pats) THEN [pattern |-> None, warnings |-> warned]
    ELSE IF matches_raises(pats[k], s) THEN parse_line_from(pats, k + 1, s, Append(warned, pats[k].regex))
    ELSE IF matches(pats[k], s) THEN [pattern |-> Some(pats[k]), warnings |-> warned]
    ELSE parse_line_from(pats, k + 1, s, warned)

parse_line_last_match(s, pats) == parse_line_last(pats, Len(pats), s, <<>>)

\* parse_line (add_pattern.py, InteractiveParser): the first pattern of the list
\* that matches, with the warnings printed on the way
parse_line(s, pats) == parse_line_from(pats, 1, s, <<>>)

RECURSIVE llm_match_from(_, _, _)
llm_match_from(pats, k, s) ==
    IF k > Len(pats) THEN None
    ELSE IF matches_raises(pats[k], s) THEN llm_match_from(pats, k + 1, s)
    ELSE IF matches(pats[k], s) THEN Some(pats[k])
    ELSE llm_match_from(pats, k + 1, s)

\* the matching loop of LLMParser.process_unprocessed_log (matched is
\* "matching_pattern is present")
llm_match(s, pats) == llm_match_from(pats, 1, s)

-----------------------------------------------------------------------------
(* Operations on the store and the LLMParser cache *)

\* line, patterns and matching_pattern are locals of one loop iteration of the
\* caller: the iteration that changes the store ends with them dropped
DropLocals ==
    /\ caller' = "none"
    /\ line' = <<>>
    /\ patterns' = <<>>
    /\ matching_pattern' = None
    /\ warnings' = <<>>

\* LogPatternStore.add_pattern called by add_pattern.py or InteractiveParser
\* (need_reviewing left at its default)
AddPattern(regex, utility_name, is_error) ==
    /\ clock < MaxAdds
    /\ store' = add_pattern(store, regex, utility_name, is_error, TRUE, clock + 1)
    /\ clock' = clock + 1
    /\ issued' = Append(issued, next_rowid(store))
    /\ DropLocals
    /\ UNCHANGED <<_patterns, stale, embedVars, auditVars, sessionVars, columns>>

\* LogPatternStore.delete_pattern (add_pattern.py, action 'd'); an unknown id
\* deletes nothing
DeletePattern(pattern_id) ==
    /\ store' = delete_pattern(store, pattern_id)
    /\ stale' = (stale \/ (_patterns # None /\ store' # store))
    /\ deleted' = deleted \cup {store[i].stamp : i \in {j \in DOMAIN store : store[j].id = pattern_id}}
    /\ DropLocals
    /\ UNCHANGED <<clock, _patterns, embedVars, issued, reviewed, sessionVars, columns>>

\* a plausible other _update_patterns: the cache is left as it was
update_cache_forgotten(cache, new_pattern) == cache

\* a plausible other _update_patterns: the new pattern is put first in the cache
update_cache_prepend(cache, new_pattern) == IF cache # None THEN Some(<<new_pattern>> \o Get(cache)) ELSE cache

\* _update_patterns, `if self._patterns is not None: self._patterns.append(new_pattern)`
update_cache(cache, new_pattern) == IF cache # None THEN Some(Append(Get(cache), new_pattern)) ELSE cache

\* LLMParser._update_patterns: INSERT, then append to the cache if it is loaded
UpdatePatterns(regex, utility_name, is_error) ==
    /\ clock < MaxAdds
    /\ store' = add_pattern(store, regex, utility_name, is_error, TRUE, clock + 1)
    /\ clock' = clock + 1
    /\ _patterns' = update_cache(_patterns, LogPattern(next_rowid(store), regex, utility_name, is_error, TRUE, clock + 1))
    /\ issued' = Append(issued, next_rowid(store))
    /\ DropLocals
    /\ UNCHANGED <<stale, embedVars, auditVars, sessionVars, columns>>

\* add_pattern.py main: patterns = get_all_patterns(); parse_line(line, patterns)
ParseLine(s) ==
    /\ caller' = "parse_line"
    /\ line' = s
    /\ patterns' = get_all_patterns
    /\ matching_pattern' = parse_line(s, patterns').pattern
    /\ warnings' = parse_line(s, patterns').warnings
    /\ UNCHANGED <<store, clock, _patterns, stale, embedVars, issued, auditVars, sessionVars, columns>>

\* LLMParser.process_unprocessed_log, one line: self.patterns (loaded on first
\* use) is scanned for the first match
LLMMatchLine(s) ==
    /\ caller' = "process_unprocessed_log"
    /\ line' = s
    /\ _patterns' = IF _patterns = None THEN Some(get_all_patterns) ELSE _patterns
    /\ patterns' = Get(_patterns')
    /\ matching_pattern' = llm_match(s, patterns')
    /\ warnings' = <<>>
    /\ UNCHANGED <<store, clock, stale, embedVars, issued, auditVars, sessionVars, columns>>

\* no script of the repository is running
NoSession ==
    /\ program = "none"
    /\ pc = "idle"
    /\ logs = <<>>
    /\ log_file = None
    /\ line_num = 0
    /\ new_patterns = {}
    /\ entered_regex = None
    /\ writes = <<>>
    /\ override = FALSE
    /\ asked = FALSE

Init ==
    /\ store = <<>>
    /\ clock = 0
    /\ _patterns = None
    /\ stale = FALSE
    /\ caller = "none"
    /\ line = <<>>
    /\ patterns = <<>>
    /\ matching_pattern = None
    /\ warnings = <<>>
    /\ _utility_mapping = None
    /\ _patterns_by_utility = <<>>
    /\ issued = <<>>
    /\ snapshot = <<>>
    /\ log_content = None
    /\ embedding = None
    /\ reviewed = {}
    /\ deleted = {}
    /\ NoSession
    /\ columns = CurrentColumns

Next ==
    \/ \E p \in Proposals : AddPattern(p[1], p[2], p[3])
    \/ \E id \in 1..MaxAdds : DeletePattern(id)
    \/ \E p \in Proposals : UpdatePatterns(p[1], p[2], p[3])
    \/ \E s \in Lines : ParseLine(s)
    \/ \E s \in Lines : LLMMatchLine(s)

Spec == Init /\ [][Next]_vars

NextCache ==
    \/ \E p \in Proposals : UpdatePatterns(p[1], p[2], p[3])
    \/ \E s \in Lines : LLMMatchLine(s)

\* an LLMParser that is the only writer of the pattern table
SpecCache == Init /\ [][NextCache]_vars

-----------------------------------------------------------------------------
(* EmbeddingGenerator *)

\* str < str in Python: by code points, a proper prefix first
RECURSIVE str_less(_, _)
str_less(a, b) ==
    IF b = <<>> THEN FALSE
    ELSE IF a = <<>> THEN TRUE
    ELSE IF Head(a) # Head(b) THEN Head(a) < Head(b)
    ELSE str_less(Tail(a), Tail(b))

RECURSIVE insert_sorted(_, _)
insert_sorted(names, n) ==
    IF names = <<>> THEN <<n>>
    ELSE IF str_less(n, Head(names)) THEN <<n>> \o names
    ELSE <<Head(names)>> \o insert_sorted(Tail(names), n)

RECURSIVE sort_from(_, _, _)
sort_from(names, k, acc) == IF k > Len(names) THEN acc ELSE sort_from(names, k + 1, insert_sorted(acc, names[k]))

\* a plausible other index: the keys enumerated in dict order, unsorted
unsorted(names) == names

\* sorted(names)
sorted(names) == sort_from(names, 1, <<>>)

\* the grouping loop of _initialize_mappings: one entry per utility in order of
\* first appearance, each with its (regex, is_error) pairs in list order
RECURSIVE group_by_utility(_, _, _)
group_by_utility(pats, k, groups) ==
    IF k > Len(pats) THEN groups
    ELSE LET p == pats[k]
             at == {g \in DOMAIN groups : groups[g].utility_name = p.utility_name}
         IN  IF at = {}
             THEN group_by_utility(pats, k + 1, Append(groups, [utility_name |-> p.utility_name, patterns |-> << <<p.regex, p.is_error>> >>]))
             ELSE group_by_utility(pats, k + 1, [g \in DOMAIN groups |-> IF g \in at THEN [groups[g] EXCEPT !.patterns = Append(@, <<p.regex, p.is_error>>)] ELSE groups[g]])

\* utility_patterns.keys()
keys(groups) == [g \in DOMAIN groups |-> groups[g].utility_name]

\* {name: idx for idx, name in enumerate(names)}
enumerate_mapping(names) == [n \in {names[i] : i \in DOMAIN names} |-> (CHOOSE i \in DOMAIN names : names[i] = n) - 1]

\* a plausible other dimension: the number of patterns of the snapshot
dimension_patterns == Len(get_all_patterns)

\* EmbeddingGenerator.dimension
dimension == Cardinality(DOMAIN Get(_utility_mapping))

\* np.zeros(n); coordinate i is kept at position i + 1
np_zeros(n) == [i \in 1..n |-> 0]

\* a plausible other update: embedding[utility_idx] = 1
increment_set(vec, idx) == [i \in DOMAIN vec |-> IF i = idx + 1 THEN 1 ELSE vec[i]]

\* embedding[utility_idx] += 1
increment(vec, idx) == [i \in DOMAIN vec |-> IF i = idx + 1 THEN vec[i] + 1 ELSE vec[i]]

\* a plausible other test: `if not line` without strip()
is_blank_unstripped(s) == s = <<>>

\* `not line.strip()`
is_blank(s) == strip(s) = <<>>

\* a plausible other inner loop: no break, any matching error pattern counts
RECURSIVE first_match_is_error_no_break(_, _, _)
first_match_is_error_no_break(pats, k, s) ==
    IF k > Len(pats) THEN FALSE
    ELSE IF re_match(pats[k][1], s) = "match" /\ pats[k][2] THEN TRUE
    ELSE first_match_is_error_no_break(pats, k + 1, s)

\* a plausible other inner loop: the is_error test left out
RECURSIVE first_match_any(_, _, _)
first_match_any(pats, k, s) ==
    IF k > Len(pats) THEN FALSE
    ELSE IF re_match(pats[k][1], s) = "match" THEN TRUE
    ELSE first_match_any(pats, k + 1, s)

\* a plausible other inner loop: re.error ends the scan of the utility
RECURSIVE first_match_is_error_until_invalid(_, _, _)
first_match_is_error_until_invalid(pats, k, s) ==
    IF k > Len(pats) THEN FALSE
    ELSE LET r == re_match(pats[k][1], s)
         IN  IF r = "error" THEN FALSE
             ELSE IF r = "match" THEN pats[k][2]
             ELSE first_match_is_error_until_invalid(pats, k + 1, s)

\* the inner loop of generate_embedding over one utility's (regex, is_error)
\* pairs: whether it increments. re.error goes on to the next pattern, the
\* first match ends the loop and increments when it is an error pattern
RECURSIVE first_match_is_error(_, _, _)
first_match_is_error(pats, k, s) ==
    IF k > Len(pats) THEN FALSE
    ELSE LET r == re_match(pats[k][1], s)
         IN  IF r = "error" THEN first_match_is_error(pats, k + 1, s)
             ELSE IF r = "match" THEN pats[k][2]
             ELSE first_match_is_error(pats, k + 1, s)

\* a plausible other utility loop: it ends at the first utility with a match
RECURSIVE scan_utilities_first_only(_, _, _, _, _)
scan_utilities_first_only(groups, mapping, g, s, vec) ==
    IF g > Len(groups) THEN vec
    ELSE IF first_match_any(groups[g].patterns, 1, s)
         THEN (IF first_match_is_error(groups[g].patterns, 1, s) THEN increment(vec, mapping[groups[g].utility_name]) ELSE vec)
         ELSE scan_utilities_first_only(groups, mapping, g + 1, s, vec)

\* the loop of generate_embedding over the utilities, for one line; groups is
\* self._patterns_by_utility and mapping self._utility_mapping
RECURSIVE scan_utilities(_, _, _, _, _)
scan_utilities(groups, mapping, g, s, vec) ==
    IF g > Len(groups) THEN vec
    ELSE LET utility_idx == mapping[groups[g].utility_name]
         IN  scan_utilities(groups, mapping, g + 1, s, IF first_match_is_error(groups[g].patterns, 1, s) THEN increment(vec, utility_idx) ELSE vec)

\* the loop of generate_embedding over the lines
RECURSIVE scan_lines(_, _, _, _, _)
scan_lines(groups, mapping, lines, i, vec) ==
    IF i > Len(lines) THEN vec
    ELSE IF is_blank(lines[i]) THEN scan_lines(groups, mapping, lines, i + 1, vec)
    ELSE scan_lines(groups, mapping, lines, i + 1, scan_utilities(groups, mapping, 1, lines[i], vec))

\* EmbeddingGenerator.generate_embedding
generate_embedding(log) == scan_lines(_patterns_by_utility, Get(_utility_mapping), splitlines(log), 1, np_zeros(dimension))

\* generate_embedding(log) of an EmbeddingGenerator constructed on the table
embedding_on(table, log) ==
    LET groups == group_by_utility(table, 1, <<>>)
        mapping == enumerate_mapping(sorted(keys(groups)))
    IN  scan_lines(groups, mapping, splitlines(log), 1, np_zeros(Cardinality(DOMAIN mapping)))

\* the coordinates generate_embedding increments for one line
increment_targets(s) == {Get(_utility_mapping)[_patterns_by_utility[g].utility_name] : g \in {h \in DOMAIN _patterns_by_utility : first_match_is_error(_patterns_by_utility[h].patterns, 1, s)}}

\* EmbeddingGenerator.__init__: _initialize_mappings on the current table
Construct ==
    /\ _utility_mapping = None
    /\ _patterns_by_utility' = group_by_utility(get_all_patterns, 1, <<>>)
    /\ _utility_mapping' = Some(enumerate_mapping(sorted(keys(_patterns_by_utility'))))
    /\ snapshot' = get_all_patterns
    /\ UNCHANGED <<store, clock, _patterns, stale, classifyVars, log_content, embedding, issued, auditVars, sessionVars, columns>>

\* a plausible other generator: every call reads the pattern table again
GenerateEmbeddingLive(log) ==
    /\ _utility_mapping # None
    /\ log_content = None
    /\ log_content' = Some(log)
    /\ embedding' = Some(embedding_on(get_all_patterns, log))
    /\ UNCHANGED <<store, clock, _patterns, stale, classifyVars, _utility_mapping, _patterns_by_utility, snapshot, issued, auditVars, sessionVars, columns>>

\* generate_embedding(log) on the constructed generator. The call reads the
\* generator and writes nothing of it, so one call per behaviour reaches every
\* (generator, log) pair
GenerateEmbedding(log) ==
    /\ _utility_mapping # None
    /\ log_content = None
    /\ log_content' = Some(log)
    /\ embedding' = Some(generate_embedding(log))
    /\ UNCHANGED <<store, clock, _patterns, stale, classifyVars, _utility_mapping, _patterns_by_utility, snapshot, issued, auditVars, sessionVars, columns>>

\* all sequences over S of length at most n
SeqsUpTo(S, n) == UNION {[1..m -> S] : m \in 0..n}

LogChars == {"a", " ", NL}

Logs == SeqsUpTo(LogChars, MaxLogLen)

EmbedRegexes == {RegexA, RegexAny, RegexUnclosed}

EmbedUtilities == {Gcc, Make}

IndexUtilities == {Gcc, Make, Npm, Gc}

\* the table after n INSERTs into an empty table, row i holding choice[i]
TableOf(choice) == [i \in DOMAIN choice |-> LogPattern(i, choice[i][1], choice[i][2], choice[i][3], TRUE, i)]

EmbedTables == {TableOf(c) : c \in SeqsUpTo(EmbedRegexes \X EmbedUtilities \X BOOLEAN, MaxPatterns)}

IndexTables == {TableOf(c) : c \in SeqsUpTo({RegexA} \X IndexUtilities \X {FALSE}, MaxIndexPatterns)}

InitGenerator(tables) ==
    /\ store \in tables
    /\ clock = Len(store)
    /\ _patterns = None
    /\ stale = FALSE
    /\ caller = "none"
    /\ line = <<>>
    /\ patterns = <<>>
    /\ matching_pattern = None
    /\ warnings = <<>>
    /\ _utility_mapping = None
    /\ _patterns_by_utility = <<>>
    /\ issued = [i \in DOMAIN store |-> store[i].id]
    /\ snapshot = <<>>
    /\ log_content = None
    /\ embedding = None
    /\ reviewed = {}
    /\ deleted = {}
    /\ NoSession
    /\ columns = CurrentColumns

InitEmbed == InitGenerator(EmbedTables)

NextEmbed ==
    \/ Construct
    \/ \E log \in Logs : GenerateEmbedding(log)

\* an EmbeddingGenerator built on a table, then asked for embeddings
SpecEmbed == InitEmbed /\ [][NextEmbed]_vars

InitIndex == InitGenerator(IndexTables)

NextIndex == Construct

\* an EmbeddingGenerator built on a table of up to four utilities
SpecIndex == InitIndex /\ [][NextIndex]_vars

-----------------------------------------------------------------------------
(* The review flag: mark_reviewed and update_utilities.py *)

\* INSERTs into the pattern table in one behaviour of SpecReview
MaxReviewAdds == 3

\* "unknown"
Unknown == <<117, 110, 107, 110, 111, 119, 110>>

\* "GCC"
GccUpper == <<71, 67, 67>>

\* ^A
RegexUpperA == <<"^", "A">>

\* SQLite LOWER() on a utility name: the ASCII capitals are shifted
lower_name(name) == [k \in DOMAIN name |-> IF name[k] \in 65..90 THEN name[k] + 32 ELSE name[k]]

\* SQLite LOWER() on a regex over the modelled characters
lower_regex(r) == [k \in DOMAIN r |-> IF r[k] = "A" THEN "a" ELSE r[k]]

\* a plausible other UPDATE: the WHERE clause left out
mark_reviewed_all(rows, pattern_id) == [i \in DOMAIN rows |-> [rows[i] EXCEPT !.need_reviewing = FALSE]]

\* the table after LogPatternStore.mark_reviewed
mark_reviewed(rows, pattern_id) == [i \in DOMAIN rows |-> IF rows[i].id = pattern_id THEN [rows[i] EXCEPT !.need_reviewing = FALSE] ELSE rows[i]]

\* the table after update_utilities: the TEXT columns regex and utility_name
\* in lower case, then every utility name outside the whitelist replaced by
\* 'unknown' with need_reviewing = 1
update_utilities(rows, whitelist) ==
    LET lowered == [i \in DOMAIN rows |-> [rows[i] EXCEPT !.regex = lower_regex(@), !.utility_name = lower_name(@)]]
    IN  [i \in DOMAIN rows |->
            IF lowered[i].utility_name \in whitelist THEN lowered[i]
            ELSE [lowered[i] EXCEPT !.utility_name = Unknown, !.need_reviewing = TRUE]]

\* whitelist.txt as load_whitelist returns it
Whitelists == {{Gcc}, {Gcc, Make, Unknown}}

ReviewProposals == {<<RegexA, Gcc, TRUE>>, <<RegexAny, Make, FALSE>>, <<RegexUpperA, GccUpper, TRUE>>}

\* LogPatternStore.mark_reviewed(pattern_id)
MarkReviewed(pattern_id) ==
    /\ store' = mark_reviewed(store, pattern_id)
    /\ reviewed' = reviewed \cup {store[i].stamp : i \in {j \in DOMAIN store : store[j].id = pattern_id}}
    /\ UNCHANGED <<clock, _patterns, stale, classifyVars, embedVars, issued, deleted, sessionVars, columns>>

\* update_utilities.py on the pattern table
UpdateUtilities(whitelist) ==
    /\ store' = update_utilities(store, whitelist)
    /\ UNCHANGED <<clock, _patterns, stale, classifyVars, embedVars, issued, auditVars, sessionVars, columns>>

NextReview ==
    \/ \E p \in ReviewProposals : clock < MaxReviewAdds /\ AddPattern(p[1], p[2], p[3])
    \/ \E id \in 1..MaxReviewAdds : DeletePattern(id)
    \/ \E id \in 1..MaxReviewAdds : MarkReviewed(id)
    \/ \E whitelist \in Whitelists : UpdateUtilities(whitelist)

\* the store operations that touch the review flag, on a fresh database
SpecReview == Init /\ [][NextReview]_vars

-----------------------------------------------------------------------------
(* An EmbeddingGenerator and later changes of the pattern table *)

\* INSERTs into the pattern table in one behaviour of SpecSnapshot
MaxSnapshotAdds == 2

\* "a", and "a" on two lines
SnapshotLogs == {<<"a">>, <<"a", NL, "a">>}

NextSnapshot ==
    \/ \E p \in Proposals : clock < MaxSnapshotAdds /\ AddPattern(p[1], p[2], p[3])
    \/ \E id \in 1..MaxSnapshotAdds : DeletePattern(id)
    \/ \E id \in 1..MaxSnapshotAdds : MarkReviewed(id)
    \/ Construct
    \/ \E log \in SnapshotLogs : GenerateEmbedding(log)

\* a generator constructed at some moment of a history of store operations
SpecSnapshot == Init /\ [][NextSnapshot]_vars

-----------------------------------------------------------------------------
(* Repeated classification against one pattern list *)

\* b    -- a literal that is not anchored
RegexB == <<"b">>

ClassifyRegexes == Regexes \cup {RegexB}

ClassifyTables == {TableOf(c) : c \in SeqsUpTo(ClassifyRegexes \X {Gcc} \X {FALSE}, MaxPatterns)}

\* a plausible other loop: a self-organising list, the matched pattern moves to the front
patterns_after_parse_line_move_to_front(s, pats) ==
    LET found == parse_line(s, pats).pattern
    IN  IF found = None THEN pats
        ELSE <<Get(found)>> \o SelectSeq(pats, LAMBDA r : r # Get(found))

\* the list parse_line was given, after the call: the loop only reads it
patterns_after_parse_line(s, pats) == pats

\* InteractiveParser.process_log: patterns = self.pattern_store.get_all_patterns()
ProcessLogGetPatterns ==
    /\ caller = "none"
    /\ caller' = "process_log"
    /\ patterns' = get_all_patterns
    /\ UNCHANGED <<store, clock, _patterns, stale, line, matching_pattern, warnings, embedVars, issued, auditVars, sessionVars, columns>>

\* InteractiveParser.process_log, one line: parse_line(line, patterns) on the
\* list the method holds
ProcessLogParseLine(s) ==
    /\ caller # "none"
    /\ caller' = "parse_line"
    /\ line' = s
    /\ matching_pattern' = parse_line(s, patterns).pattern
    /\ warnings' = parse_line(s, patterns).warnings
    /\ patterns' = patterns_after_parse_line(s, patterns)
    /\ UNCHANGED <<store, clock, _patterns, stale, embedVars, issued, auditVars, sessionVars, columns>>

InitClassify == InitGenerator(ClassifyTables)

NextClassify ==
    \/ ProcessLogGetPatterns
    \/ \E s \in Lines : ProcessLogParseLine(s)

\* one pattern list, classified against again and again
SpecClassify == InitClassify /\ [][NextClassify]_vars

-----------------------------------------------------------------------------
(* LogPatternStore._init_db on a database file that may already exist *)

\* the columns of a table created before need_reviewing was introduced
LegacyColumns == <<"id", "regex", "utility_name", "is_error">>

\* the names PRAGMA table_info(patterns) returns: row[1] of each column row
table_info(cols) == {cols[i] : i \in DOMAIN cols}

\* CREATE TABLE IF NOT EXISTS patterns (...): nothing happens to a table that exists
create_table_if_not_exists(cols) == IF cols = <<>> THEN CurrentColumns ELSE cols

\* ALTER TABLE patterns ADD COLUMN need_reviewing
add_column_need_reviewing(cols) == Append(cols, "need_reviewing")

\* the table's columns after _init_db: the first test looks for the name
\* "patterns" among the column names
_init_db(cols) ==
    IF "patterns" \notin table_info(cols) THEN create_table_if_not_exists(cols)
    ELSE IF "need_reviewing" \notin table_info(cols) THEN add_column_need_reviewing(cols)
    ELSE cols

\* get_pattern and get_all_patterns build LogPattern(row[0], ..., bool(row[4]))
\* from a SELECT * row: row[4] exists when the table has a fifth column
row_has_index_4(cols) == Len(cols) >= 5

\* LogPatternStore.__init__: self._init_db()
InitDb ==
    /\ program = "log_patterns"
    /\ pc = "init_db"
    /\ columns' = _init_db(columns)
    /\ pc' = "ready"
    /\ UNCHANGED <<store, clock, _patterns, stale, classifyVars, embedVars, issued, auditVars, program, logs, log_file, line_num, new_patterns, entered_regex, writes, override, asked>>

\* LogPatternStore.get_all_patterns: IndexError on the first row when the
\* rows have no index 4
GetAllPatterns ==
    /\ program = "log_patterns"
    /\ pc = "ready"
    /\ IF store # <<>> /\ ~row_has_index_4(columns)
       THEN pc' = "crashed" /\ UNCHANGED classifyVars
       ELSE /\ pc' = pc
            /\ caller' = "get_all_patterns"
            /\ line' = <<>>
            /\ patterns' = get_all_patterns
            /\ matching_pattern' = None
            /\ warnings' = <<>>
    /\ UNCHANGED <<store, clock, _patterns, stale, embedVars, issued, auditVars, program, logs, log_file, line_num, new_patterns, entered_regex, writes, override, asked, columns>>

\* LogPatternStore.get_pattern: None when no row has the id, IndexError when
\* the row has no index 4
GetPattern(pattern_id) ==
    /\ program = "log_patterns"
    /\ pc = "ready"
    /\ LET rows == SelectSeq(store, LAMBDA r : r.id = pattern_id)
       IN  IF rows # <<>> /\ ~row_has_index_4(columns)
           THEN pc' = "crashed" /\ UNCHANGED classifyVars
           ELSE /\ pc' = pc
                /\ caller' = "get_pattern"
                /\ line' = <<>>
                /\ patterns' = <<>>
                /\ matching_pattern' = IF rows = <<>> THEN None ELSE Some(rows[1])
                /\ warnings' = <<>>
    /\ UNCHANGED <<store, clock, _patterns, stale, embedVars, issued, auditVars, program, logs, log_file, line_num, new_patterns, entered_regex, writes, override, asked, columns>>

\* a database file before LogPatternStore is constructed on it: no table, a
\* table of the old layout or a table of the current layout, with its rows
\* (the need_reviewing field of a row is not read unless the column exists)
InitInitDb ==
    /\ columns \in {<<>>, LegacyColumns, CurrentColumns}
    /\ store \in IF columns = <<>> THEN {<<>>} ELSE EmbedTables
    /\ clock = Len(store)
    /\ _patterns = None
    /\ stale = FALSE
    /\ caller = "none"
    /\ line = <<>>
    /\ patterns = <<>>
    /\ matching_pattern = None
    /\ warnings = <<>>
    /\ _utility_mapping = None
    /\ _patterns_by_utility = <<>>
    /\ issued = [i \in DOMAIN store |-> store[i].id]
    /\ snapshot = <<>>
    /\ log_content = None
    /\ embedding = None
    /\ reviewed = {}
    /\ deleted = {}
    /\ program = "log_patterns"
    /\ pc = "init_db"
    /\ logs = <<>>
    /\ log_file = None
    /\ line_num = 0
    /\ new_patterns = {}
    /\ entered_regex = None
    /\ writes = <<>>
    /\ override = FALSE
    /\ asked = FALSE

NextInitDb ==
    \/ InitDb
    \/ GetAllPatterns
    \/ \E id \in 1..MaxPatterns : GetPattern(id)

\* a LogPatternStore constructed on a database file, then read
SpecInitDb == InitInitDb /\ [][NextInitDb]_vars

-----------------------------------------------------------------------------
(* LogStorage and the ingestion scripts *)

\* logs of table `logs` at the start of a run
MaxLogs == 2

\* "a", then " a"
TextTwoLines == <<"a", NL, " ", "a">>

\* "a" twice
TextSameLine == <<"a", NL, "a">>

\* a line of one blank, then "a"
TextBlankFirst == <<" ", NL, "a">>

SessionTexts == {TextTwoLines, TextSameLine, TextBlankFirst}

\* a row of table `logs`; packet_name, architecture, date and error are not read
\* by the scripts' control flow
LogFile(id, text, processed) == [id |-> id, log |-> text, processed |-> processed]

\* the table after n add_log calls on an empty table
LogTableOf(texts) == [i \in DOMAIN texts |-> LogFile(i, texts[i], FALSE)]

LogTables == {LogTableOf(t) : t \in SeqsUpTo(SessionTexts, MaxLogs)}

\* the rows get_random_unprocessed_log may return: ORDER BY RANDOM() over the
\* rows WHERE processed = FALSE
unprocessed_logs == {logs[i] : i \in {j \in DOMAIN logs : ~logs[j].processed}}

\* LogStorage.mark_as_processed
mark_as_processed(rows, log_id) == [i \in DOMAIN rows |-> IF rows[i].id = log_id THEN [rows[i] EXCEPT !.processed = TRUE] ELSE rows[i]]

\* log.log.splitlines() of the log being processed
log_lines == IF log_file = None THEN <<>> ELSE splitlines(Get(log_file).log)

\* ghost record of one add_pattern call of a script
Write(id, r, s, n, overridden) == [id |-> id, regex |-> r, line |-> s, line_num |-> n, override |-> overridden]

-----------------------------------------------------------------------------
(* llm_parser.py *)

\* what the oracle call comes back with: kind "error" is a failed request,
\* "text" a reply that is no JSON, "json" a JSON object with or without its
\* "regex" and "utility_name" fields; is_error is what the object says under
\* a key "is_error", which the prompt does not ask for and the code never reads
OracleReply(kind, r, u, e) == [kind |-> kind, regex |-> r, utility_name |-> u, is_error |-> e]

OracleRegexes == {RegexA, RegexAny, RegexUnclosed}

OracleReplies ==
    {OracleReply("error", None, None, FALSE), OracleReply("text", None, None, FALSE)}
        \cup {OracleReply("json", r, u, e) : r \in {None} \cup {Some(x) : x \in OracleRegexes}, u \in {None, Some(Gcc)}, e \in BOOLEAN}

Returned(result) == [raised |-> FALSE, result |-> result]

Raised == [raised |-> TRUE, result |-> None]

\* a plausible other analyze_line_with_llm: the regex is compiled but not
\* tried on the line
analyze_line_with_llm_unchecked(s, reply) ==
    IF reply.kind = "error" THEN Returned(None)
    ELSE IF reply.kind = "text" THEN Raised
    ELSE IF reply.regex = None THEN Raised
    ELSE IF re_match(Get(reply.regex), s) = "error" THEN Returned(None)
    ELSE IF reply.utility_name = None THEN Raised
    ELSE Returned(Some(<<Get(reply.regex), Get(reply.utility_name), FALSE>>))

\* a plausible other analyze_line_with_llm: the error flag is taken from the reply
analyze_line_with_llm_reply_flag(s, reply) ==
    IF reply.kind = "error" THEN Returned(None)
    ELSE IF reply.kind = "text" THEN Raised
    ELSE IF reply.regex = None THEN Raised
    ELSE IF re_match(Get(reply.regex), s) = "error" THEN Returned(None)
    ELSE IF re_match(Get(reply.regex), s) = "nomatch" THEN Returned(None)
    ELSE IF reply.utility_name = None THEN Raised
    ELSE Returned(Some(<<Get(reply.regex), Get(reply.utility_name), reply.is_error>>))

\* LLMParser.analyze_line_with_llm with the oracle's reply: the RuntimeError of
\* ask_llm is caught by `except Exception` (None); JSONDecodeError and KeyError
\* are raised again as RuntimeError, which no handler of the try catches
analyze_line_with_llm(s, reply) ==
    IF reply.kind = "error" THEN Returned(None)
    ELSE IF reply.kind = "text" THEN Raised
    ELSE IF reply.regex = None THEN Raised
    ELSE IF re_match(Get(reply.regex), s) = "error" THEN Returned(None)
    ELSE IF re_match(Get(reply.regex), s) = "nomatch" THEN Returned(None)
    ELSE IF reply.utility_name = None THEN Raised
    ELSE Returned(Some(<<Get(reply.regex), Get(reply.utility_name), FALSE>>))

\* LLMParser.run: process_unprocessed_log is entered; it returns False when
\* no unprocessed log is left (run prints "All logs processed!" and returns)
LLMProcessUnprocessedLog ==
    /\ program = "llm_parser"
    /\ pc = "run"
    /\ IF unprocessed_logs = {}
       THEN pc' = "done" /\ UNCHANGED <<log_file, line_num, new_patterns, writes>>
       ELSE /\ \E l \in unprocessed_logs : log_file' = Some(l)
            /\ new_patterns' = {}
            /\ line_num' = 0
            /\ writes' = <<>>
            /\ pc' = "lines"
    /\ asked' = FALSE
    /\ UNCHANGED <<store, clock, _patterns, stale, classifyVars, embedVars, issued, auditVars, program, logs, entered_regex, override, columns>>

\* one iteration of the loop over the lines of process_unprocessed_log (logs
\* of the model are shorter than the 10 lines after which the loop pauses)
LLMLine(reply) ==
    /\ program = "llm_parser"
    /\ pc = "lines"
    /\ line_num < Len(log_lines)
    /\ line_num' = line_num + 1
    /\ LET s == log_lines[line_num + 1]
           cache == IF _patterns = None THEN Some(get_all_patterns) ELSE _patterns
           found == llm_match(s, Get(cache))
           analysis == analyze_line_with_llm(s, reply)
           result == analysis.result
           new_pattern == LogPattern(next_rowid(store), Get(result)[1], Get(result)[2], Get(result)[3], TRUE, clock + 1)
       IN  IF is_blank(s)
           THEN /\ asked' = FALSE
                /\ UNCHANGED <<store, clock, _patterns, classifyVars, issued, pc, new_patterns, writes>>
           ELSE /\ caller' = "process_unprocessed_log"
                /\ line' = s
                /\ patterns' = Get(cache)
                /\ matching_pattern' = found
                /\ warnings' = <<>>
                /\ asked' = (found = None)
                /\ pc' = IF found = None /\ analysis.raised THEN "crashed" ELSE pc
                /\ IF found = None /\ result # None /\ Get(result)[1] \notin new_patterns
                   THEN /\ new_patterns' = new_patterns \cup {Get(result)[1]}
                        /\ store' = add_pattern(store, Get(result)[1], Get(result)[2], Get(result)[3], TRUE, clock + 1)
                        /\ clock' = clock + 1
                        /\ issued' = Append(issued, new_pattern.id)
                        /\ _patterns' = update_cache(cache, new_pattern)
                        /\ writes' = Append(writes, Write(new_pattern.id, new_pattern.regex, s, line_num + 1, FALSE))
                   ELSE /\ _patterns' = cache
                        /\ UNCHANGED <<store, clock, issued, new_patterns, writes>>
    /\ UNCHANGED <<stale, embedVars, auditVars, program, logs, log_file, entered_regex, override, columns>>

\* the end of process_unprocessed_log: mark_as_processed(log.id), return True
LLMMarkProcessed ==
    /\ program = "llm_parser"
    /\ pc = "lines"
    /\ line_num = Len(log_lines)
    /\ logs' = mark_as_processed(logs, Get(log_file).id)
    /\ log_file' = None
    /\ pc' = "run"
    /\ asked' = FALSE
    /\ UNCHANGED <<store, clock, _patterns, stale, classifyVars, embedVars, issued, auditVars, program, line_num, new_patterns, entered_regex, writes, override, columns>>

-----------------------------------------------------------------------------
(* interactive_parser.py *)

\* state no prompt of interactive_parser.py or add_pattern.py touches
offstageVars == <<_patterns, stale, embedVars, reviewed, program, new_patterns, asked>>

\* answers typed at a y/n prompt; "" is any answer that is neither
Answers == {"y", "n", ""}

\* what is typed at a regex prompt: a regex, q, or nothing
Quit == <<"q">>

TypedRegexes == {RegexA, RegexAny, RegexUnclosed, Quit}

\* (utility name, answer to "Is this an error line?") typed after the regex;
\* the error prompt repeats until the answer is y or n
TypedLabels == {<<Gcc, "y">>, <<Make, "n">>}

\* match.groups() is not empty: the regex has a capturing group
has_groups(r) == \E k \in DOMAIN r : r[k] = "("

\* InteractiveParser.run: get_unprocessed_log, then process_log up to its loop
\* over the lines ("No unprocessed logs found!" ends the run)
InteractiveGetLog ==
    /\ program = "interactive_parser"
    /\ pc = "run"
    /\ IF unprocessed_logs = {}
       THEN pc' = "done" /\ UNCHANGED <<log_file, line_num, writes, patterns>>
       ELSE /\ \E l \in unprocessed_logs : log_file' = Some(l)
            /\ patterns' = get_all_patterns
            /\ line_num' = 0
            /\ writes' = <<>>
            /\ pc' = "lines"
    /\ UNCHANGED <<store, clock, issued, caller, line, matching_pattern, warnings, logs, entered_regex, override, deleted, offstageVars, columns>>

\* process_log, one iteration of the loop over the lines up to the prompt
\* "No matching pattern found. Create new pattern?" (logs of the model are
\* shorter than the 10 lines after which "Continue with this file?" is asked)
InteractiveLine ==
    /\ program = "interactive_parser"
    /\ pc = "lines"
    /\ line_num < Len(log_lines)
    /\ line_num' = line_num + 1
    /\ LET s == log_lines[line_num + 1]
       IN  IF is_blank(s)
           THEN UNCHANGED <<caller, line, matching_pattern, warnings, pc>>
           ELSE /\ caller' = "parse_line"
                /\ line' = s
                /\ matching_pattern' = parse_line(s, patterns).pattern
                /\ warnings' = parse_line(s, patterns).warnings
                /\ pc' = IF matching_pattern' # None THEN "lines" ELSE "create_prompt"
    /\ UNCHANGED <<store, clock, issued, patterns, logs, log_file, entered_regex, writes, override, deleted, offstageVars, columns>>

\* the answer to "Create new pattern? (y/n)"
InteractiveCreatePrompt(answer) ==
    /\ program = "interactive_parser"
    /\ pc = "create_prompt"
    /\ pc' = IF answer = "y" THEN "regex_prompt" ELSE "lines"
    /\ UNCHANGED <<store, clock, issued, classifyVars, logs, log_file, line_num, entered_regex, writes, override, deleted, offstageVars, columns>>

\* ask_for_new_pattern: the regex typed at "Enter regex pattern", compiled and
\* matched against the line
InteractiveRegexPrompt(typed) ==
    /\ program = "interactive_parser"
    /\ pc = "regex_prompt"
    /\ override' = FALSE
    /\ IF typed = Quit
       THEN pc' = "lines" /\ entered_regex' = None
       ELSE /\ entered_regex' = Some(typed)
            /\ pc' = IF re_match(typed, line) = "error" THEN "invalid_prompt"
                     ELSE IF re_match(typed, line) = "nomatch" THEN "retry_prompt"
                     ELSE IF has_groups(typed) THEN "captures_prompt"
                     ELSE "utility_prompt"
    /\ UNCHANGED <<store, clock, issued, classifyVars, logs, log_file, line_num, writes, deleted, offstageVars, columns>>

\* the answer to "Would you like to try another pattern? (y/n)": y asks for
\* the regex again, n asks for the override, any other answer goes on to the
\* capture groups (there are none, the regex does not match) and to `break`
InteractiveRetryPrompt(answer) ==
    /\ program = "interactive_parser"
    /\ pc = "retry_prompt"
    /\ pc' = IF answer = "y" THEN "regex_prompt"
             ELSE IF answer = "n" THEN "override_prompt"
             ELSE "utility_prompt"
    /\ UNCHANGED <<store, clock, issued, classifyVars, logs, log_file, line_num, entered_regex, writes, override, deleted, offstageVars, columns>>

\* the answer to "Use this non-matching pattern anyway? (y/n)"
InteractiveOverridePrompt(answer) ==
    /\ program = "interactive_parser"
    /\ pc = "override_prompt"
    /\ override' = (answer = "y")
    /\ pc' = IF answer = "y" THEN "utility_prompt" ELSE "regex_prompt"
    /\ UNCHANGED <<store, clock, issued, classifyVars, logs, log_file, line_num, entered_regex, writes, deleted, offstageVars, columns>>

\* the answer to "Are these the captures you wanted? (y/n)"
InteractiveCapturesPrompt(answer) ==
    /\ program = "interactive_parser"
    /\ pc = "captures_prompt"
    /\ pc' = IF answer = "y" THEN "utility_prompt" ELSE "regex_prompt"
    /\ UNCHANGED <<store, clock, issued, classifyVars, logs, log_file, line_num, entered_regex, writes, override, deleted, offstageVars, columns>>

\* the choice after "Invalid regex pattern": 4 quits the creation, anything
\* else asks for the regex again
InteractiveInvalidPrompt(choice) ==
    /\ program = "interactive_parser"
    /\ pc = "invalid_prompt"
    /\ pc' = IF choice = "4" THEN "lines" ELSE "regex_prompt"
    /\ UNCHANGED <<store, clock, issued, classifyVars, logs, log_file, line_num, entered_regex, writes, override, deleted, offstageVars, columns>>

\* the utility name and the error answer; ask_for_new_pattern returns and
\* process_log calls add_pattern and takes the list again
InteractiveUtilityPrompt(utility, error_str) ==
    /\ program = "interactive_parser"
    /\ pc = "utility_prompt"
    /\ store' = add_pattern(store, Get(entered_regex), utility, error_str = "y", TRUE, clock + 1)
    /\ clock' = clock + 1
    /\ issued' = Append(issued, next_rowid(store))
    /\ patterns' = store'
    /\ writes' = Append(writes, Write(next_rowid(store), Get(entered_regex), line, line_num, override))
    /\ caller' = "none"
    /\ pc' = "lines"
    /\ UNCHANGED <<line, matching_pattern, warnings, logs, log_file, line_num, entered_regex, override, deleted, offstageVars, columns>>

\* the end of process_log: mark_as_processed(log.id)
InteractiveMarkProcessed ==
    /\ program = "interactive_parser"
    /\ pc = "lines"
    /\ line_num = Len(log_lines)
    /\ logs' = mark_as_processed(logs, Get(log_file).id)
    /\ log_file' = None
    /\ pc' = "continue_prompt"
    /\ UNCHANGED <<store, clock, issued, classifyVars, line_num, entered_regex, writes, override, deleted, offstageVars, columns>>

\* the answer to "Continue with next log? (y/n)"
InteractiveContinuePrompt(answer) ==
    /\ program = "interactive_parser"
    /\ pc = "continue_prompt"
    /\ pc' = IF answer = "y" THEN "run" ELSE "done"
    /\ UNCHANGED <<store, clock, issued, classifyVars, logs, log_file, line_num, entered_regex, writes, override, deleted, offstageVars, columns>>

-----------------------------------------------------------------------------
(* add_pattern.py *)

\* add_pattern calls in one run of a script that has no end of its own
MaxMainAdds == 2

\* what is typed at "Log line: " (a line of blanks is empty once stripped)
TypedLines == {<<"a">>, <<" ", "a", "a">>, <<" ">>}

\* what is typed at "Regex pattern: "
MainTypedRegexes == {RegexA, RegexAOnly, RegexUnclosed, <<>>}

\* (utility name, error answer) typed after the regex; the utility may be empty
MainTypedLabels == {<<Gcc, "y">>, <<Make, "n">>, <<<<>>, "n">>}

\* a plausible other validate_regex: only the compilation is tested
validate_regex_compiles(pattern, s) == re_compile(pattern)

\* validate_regex: the pattern compiles and matches the line
validate_regex(pattern, s) == re_match(pattern, s) = "match"

\* main, from "Log line: " to the prompt that follows parse_line
MainLinePrompt(typed) ==
    /\ program = "add_pattern"
    /\ pc = "line_prompt"
    /\ IF strip(typed) = <<>>
       THEN UNCHANGED <<classifyVars, pc>>
       ELSE /\ caller' = "parse_line"
            /\ line' = strip(typed)
            /\ patterns' = get_all_patterns
            /\ matching_pattern' = parse_line(line', patterns').pattern
            /\ warnings' = parse_line(line', patterns').warnings
            /\ pc' = IF matching_pattern' # None THEN "action_prompt" ELSE "create_prompt"
    /\ UNCHANGED <<store, clock, issued, logs, log_file, line_num, entered_regex, writes, override, deleted, offstageVars, columns>>

\* the answer to "(k)eep pattern, (d)elete pattern"
MainActionPrompt(action) ==
    /\ program = "add_pattern"
    /\ pc = "action_prompt"
    /\ store' = IF action = "d" THEN delete_pattern(store, Get(matching_pattern).id) ELSE store
    /\ deleted' = IF action = "d" THEN deleted \cup {Get(matching_pattern).stamp} ELSE deleted
    /\ pc' = "line_prompt"
    /\ UNCHANGED <<clock, issued, classifyVars, logs, log_file, line_num, entered_regex, writes, override, offstageVars, columns>>

\* the answer to "Would you like to create a new pattern? (y/n)"
MainCreatePrompt(answer) ==
    /\ program = "add_pattern"
    /\ pc = "create_prompt"
    /\ pc' = IF answer = "y" THEN "regex_prompt" ELSE "line_prompt"
    /\ UNCHANGED <<store, clock, issued, classifyVars, logs, log_file, line_num, entered_regex, writes, override, deleted, offstageVars, columns>>

\* the regex typed at "Regex pattern: " and its validation
MainRegexPrompt(typed) ==
    /\ program = "add_pattern"
    /\ pc = "regex_prompt"
    /\ entered_regex' = Some(typed)
    /\ pc' = IF typed = <<>> THEN "regex_prompt"
             ELSE IF validate_regex(typed, line) THEN "utility_prompt"
             ELSE "choice_prompt"
    /\ UNCHANGED <<store, clock, issued, classifyVars, logs, log_file, line_num, writes, override, deleted, offstageVars, columns>>

\* the choice after a failed validation: 3 prints "Pattern creation cancelled"
\* and leaves the loop with `regex` still holding the rejected pattern, so
\* `if not regex: continue` does not apply; anything else asks again
MainChoicePrompt(choice) ==
    /\ program = "add_pattern"
    /\ pc = "choice_prompt"
    /\ pc' = IF choice = "3" THEN (IF Get(entered_regex) = <<>> THEN "line_prompt" ELSE "utility_prompt") ELSE "regex_prompt"
    /\ UNCHANGED <<store, clock, issued, classifyVars, logs, log_file, line_num, entered_regex, writes, override, deleted, offstageVars, columns>>

\* the utility name (empty: back to the line prompt) and the error answer,
\* then add_pattern
MainUtilityPrompt(utility, error_str) ==
    /\ program = "add_pattern"
    /\ pc = "utility_prompt"
    /\ pc' = "line_prompt"
    /\ IF utility = <<>>
       THEN UNCHANGED <<store, clock, issued, writes>>
       ELSE /\ clock < MaxMainAdds
            /\ store' = add_pattern(store, Get(entered_regex), utility, error_str = "y", TRUE, clock + 1)
            /\ clock' = clock + 1
            /\ issued' = Append(issued, next_rowid(store))
            /\ writes' = Append(writes, Write(next_rowid(store), Get(entered_regex), line, 0, FALSE))
    /\ UNCHANGED <<classifyVars, logs, log_file, line_num, entered_regex, override, deleted, offstageVars, columns>>

-----------------------------------------------------------------------------
(* One run of one ingestion script on an empty pattern table *)

InitIngest ==
    /\ store = <<>>
    /\ clock = 0
    /\ _patterns = None
    /\ stale = FALSE
    /\ caller = "none"
    /\ line = <<>>
    /\ patterns = <<>>
    /\ matching_pattern = None
    /\ warnings = <<>>
    /\ _utility_mapping = None
    /\ _patterns_by_utility = <<>>
    /\ snapshot = <<>>
    /\ log_content = None
    /\ embedding = None
    /\ issued = <<>>
    /\ reviewed = {}
    /\ deleted = {}
    /\ program \in {"llm_parser", "interactive_parser", "add_pattern"}
    /\ pc = IF program = "add_pattern" THEN "line_prompt" ELSE "run"
    /\ logs \in IF program = "add_pattern" THEN {<<>>} ELSE LogTables
    /\ log_file = None
    /\ line_num = 0
    /\ new_patterns = {}
    /\ entered_regex = None
    /\ writes = <<>>
    /\ override = FALSE
    /\ asked = FALSE
    /\ columns = CurrentColumns

NextIngest ==
    \/ LLMProcessUnprocessedLog
    \/ \E reply \in OracleReplies : LLMLine(reply)
    \/ LLMMarkProcessed
    \/ InteractiveGetLog
    \/ InteractiveLine
    \/ \E answer \in Answers : InteractiveCreatePrompt(answer)
    \/ \E typed \in TypedRegexes : InteractiveRegexPrompt(typed)
    \/ \E answer \in Answers : InteractiveRetryPrompt(answer)
    \/ \E answer \in Answers : InteractiveOverridePrompt(answer)
    \/ \E answer \in Answers : InteractiveCapturesPrompt(answer)
    \/ \E choice \in {"1", "2", "3", "4"} : InteractiveInvalidPrompt(choice)
    \/ \E label \in TypedLabels : InteractiveUtilityPrompt(label[1], label[2])
    \/ InteractiveMarkProcessed
    \/ \E answer \in Answers : InteractiveContinuePrompt(answer)
    \/ \E typed \in TypedLines : MainLinePrompt(typed)
    \/ \E action \in {"k", "d"} : MainActionPrompt(action)
    \/ \E answer \in Answers : MainCreatePrompt(answer)
    \/ \E typed \in MainTypedRegexes : MainRegexPrompt(typed)
    \/ \E choice \in {"1", "2", "3"} : MainChoicePrompt(choice)
    \/ \E label \in MainTypedLabels : MainUtilityPrompt(label[1], label[2])

\* llm_parser.py, interactive_parser.py or add_pattern.py started on an empty
\* pattern table and, for the two parsers, on a table of unprocessed logs
SpecIngest == InitIngest /\ [][NextIngest]_vars

-----------------------------------------------------------------------------
(* Properties of line classification (Spec) *)

Classified == caller # "none"

\* the positions of the list whose pattern matches the line
MatchingPositions(pats, s) == {i \in DOMAIN pats : matches(pats[i], s)}

\* C1: a classification returns the pattern at the smallest list position whose
\* matches(line) is true, and returns nothing exactly when no pattern of the
\* list matches the line.
C1_FirstMatchWins ==
    Classified =>
        /\ (matching_pattern = None) <=> (MatchingPositions(patterns, line) = {})
        /\ matching_pattern # None =>
               \E i \in MatchingPositions(patterns, line) :
                   /\ \A j \in MatchingPositions(patterns, line) : i <= j
                   /\ Get(matching_pattern) = patterns[i]

\* a classification that skipped a non-matching pattern and chose between two
\* matching ones
C1_Witness ==
    /\ Classified
    /\ matching_pattern # None
    /\ Cardinality(MatchingPositions(patterns, line)) >= 2
    /\ 1 \notin MatchingPositions(patterns, line)

\* C2: in a list taken after any adds and deletes (a fresh get_all_patterns, or
\* the cache loaded after the last delete and extended by _update_patterns),
\* when several patterns match the line the classification returns the one
\* persisted first, which has the smallest id.
C2_EarliestPersistedWins ==
    (Classified /\ ~(caller = "process_unprocessed_log" /\ stale)) =>
        \A i \in MatchingPositions(patterns, line) :
            /\ matching_pattern # None
            /\ \/ patterns[i] = Get(matching_pattern)
               \/ /\ Get(matching_pattern).stamp < patterns[i].stamp
                  /\ Get(matching_pattern).id < patterns[i].id

\* two matching patterns in a list taken after a delete, one of them stored
\* under a rowid that a deleted row had before
C2_Witness ==
    /\ Classified
    /\ ~stale
    /\ clock > Len(patterns)
    /\ \E i \in MatchingPositions(patterns, line) : patterns[i].stamp > patterns[i].id
    /\ Cardinality(MatchingPositions(patterns, line)) >= 2
    /\ matching_pattern # None

\* the patterns parse_line tried whose regex does not compile
BadPatternsTried == {i \in DOMAIN patterns : ~re_compile(patterns[i].regex) /\ \A j \in MatchingPositions(patterns, line) : i < j}

\* C3: when a pattern's regex fails to compile during parse_line, matches returns
\* false, a warning naming that regex is printed, and the scan goes on to the
\* next pattern.
C3_InvalidRegexWarned ==
    caller = "parse_line" =>
        \A i \in BadPatternsTried :
            /\ ~matches(patterns[i], line)
            /\ \E w \in DOMAIN warnings : warnings[w] = patterns[i].regex
            /\ (MatchingPositions(patterns, line) # {} => matching_pattern # None)

\* the part of C3 the code does keep: the bad pattern is a non-match and a later
\* matching pattern is still returned
C3_InvalidRegexSkipped ==
    Classified =>
        \A i \in BadPatternsTried :
            /\ ~matches(patterns[i], line)
            /\ (MatchingPositions(patterns, line) # {} => matching_pattern # None)

-----------------------------------------------------------------------------
(* Properties of the utility index and the embedding (SpecIndex, SpecEmbed) *)

\* the distinct utility names of the table
UtilityNames == {store[i].utility_name : i \in DOMAIN store}

\* the patterns of utility u, in store order
OwnPatterns(u) == SelectSeq(store, LAMBDA p : p.utility_name = u)

\* the first pattern of u's own list that matches s is an error pattern
ErrorClassified(u, s) ==
    LET own == OwnPatterns(u)
    IN  \E k \in DOMAIN own :
            /\ matches(own[k], s)
            /\ own[k].is_error
            /\ \A j \in 1..(k - 1) : ~matches(own[j], s)

\* empty or whitespace only
Blank(s) == \A i \in DOMAIN s : s[i] \in Whitespace

LogLines == splitlines(Get(log_content))

NonBlank(lines) == {i \in DOMAIN lines : ~Blank(lines[i])}

NonBlankLines == NonBlank(LogLines)

Embedded == embedding # None

\* coordinate utility_index[u] of the embedding
Coordinate(u) == Get(embedding)[Get(_utility_mapping)[u] + 1]

RECURSIVE SumVec(_)
SumVec(vec) == IF vec = <<>> THEN 0 ELSE Head(vec) + SumVec(Tail(vec))

VecAdd(v, w) == [i \in DOMAIN v |-> v[i] + w[i]]

AllZero(vec) == \A i \in DOMAIN vec : vec[i] = 0

\* C4: coordinate utility_index[u] equals the number of non-blank lines whose
\* first matching pattern in u's own list (store order) is error-flagged; a
\* line whose first match in u is a non-error pattern adds nothing to u.
C4_CountsFirstMatchErrors ==
    Embedded =>
        LET lines == LogLines
        IN  \A u \in UtilityNames :
                Coordinate(u) = Cardinality({i \in NonBlank(lines) : ErrorClassified(u, lines[i])})

\* a line whose first match in u is a non-error pattern and that a later error
\* pattern of u matches as well
C4_Witness ==
    /\ Embedded
    /\ \E u \in UtilityNames : \E i \in NonBlankLines :
           /\ ~ErrorClassified(u, LogLines[i])
           /\ \E k \in DOMAIN OwnPatterns(u) : matches(OwnPatterns(u)[k], LogLines[i]) /\ OwnPatterns(u)[k].is_error

\* the utilities in which the line is error-classified
ErrorUtilities(s) == {u \in UtilityNames : ErrorClassified(u, s)}

\* C5: no first-match-wins across utilities: a single line that is
\* error-classified in k utilities increments all k coordinates, also those of
\* utilities other than the one of the classifier's global first match.
C5_EveryUtilityCounts ==
    Embedded =>
        LET lines == LogLines
        IN  Cardinality(NonBlank(lines)) = 1 =>
                \A i \in NonBlank(lines) :
                    /\ \A u \in ErrorUtilities(lines[i]) : Coordinate(u) = 1
                    /\ SumVec(Get(embedding)) = Cardinality(ErrorUtilities(lines[i]))

\* one line counted for two utilities, one of them not the classifier's
C5_Witness ==
    /\ Embedded
    /\ Cardinality(NonBlankLines) = 1
    /\ \E i \in NonBlankLines :
           /\ Cardinality(ErrorUtilities(LogLines[i])) = 2
           /\ parse_line(LogLines[i], store).pattern # None
           /\ \E u \in ErrorUtilities(LogLines[i]) :
                  /\ u # Get(parse_line(LogLines[i], store).pattern).utility_name
                  /\ Coordinate(u) = 1

\* a comes before b in lexicographic order of code points
LexLess(a, b) ==
    \E k \in 1..(Len(b)) :
        /\ k <= Len(a) + 1
        /\ \A j \in 1..(k - 1) : a[j] = b[j]
        /\ (k = Len(a) + 1 \/ a[k] < b[k])

\* C6: the utility index is a bijection between the distinct utility names of
\* the snapshot and 0..N-1, in ascending lexicographic order of the names, of
\* dimension N; {gcc, make, npm} gives gcc:0, make:1, npm:2.
C6_IndexBijection ==
    _utility_mapping # None =>
        /\ DOMAIN Get(_utility_mapping) = UtilityNames
        /\ {Get(_utility_mapping)[u] : u \in UtilityNames} = 0..(Cardinality(UtilityNames) - 1)
        /\ dimension = Cardinality(UtilityNames)
        /\ \A a, b \in UtilityNames : LexLess(a, b) => Get(_utility_mapping)[a] < Get(_utility_mapping)[b]
        /\ UtilityNames = {Gcc, Make, Npm} => (Get(_utility_mapping)[Gcc] = 0 /\ Get(_utility_mapping)[Make] = 1 /\ Get(_utility_mapping)[Npm] = 2 /\ dimension = 3)

\* the index of {gcc, make, npm}, built from a table that holds npm first
C6_Witness ==
    /\ _utility_mapping # None
    /\ UtilityNames = {Gcc, Make, Npm}
    /\ store[1].utility_name = Npm

\* C7: the embedding has the length of the utility index, every coordinate is
\* between 0 and the number of non-blank lines, and every increment targets a
\* coordinate in 0..dimension-1.
C7_ShapeAndRange ==
    Embedded =>
        LET lines == LogLines
            count == Cardinality(NonBlank(lines))
        IN  /\ Len(Get(embedding)) = Cardinality(DOMAIN Get(_utility_mapping))
            /\ \A i \in DOMAIN Get(embedding) : Get(embedding)[i] \in 0..count
            /\ \A i \in NonBlank(lines) : increment_targets(lines[i]) \subseteq 0..(Cardinality(UtilityNames) - 1)

\* an embedding of dimension 2 with a coordinate that was incremented
C7_Witness ==
    /\ Embedded
    /\ Len(Get(embedding)) = 2
    /\ \E i \in DOMAIN Get(embedding) : Get(embedding)[i] > 0

\* C8: the embedding is all-zero when no line is error-classified, in
\* particular when the snapshot holds no error-flagged pattern, whatever matches.
C8_ZeroWithoutErrors ==
    Embedded =>
        LET lines == LogLines
        IN  /\ (\A i \in NonBlank(lines) : ErrorUtilities(lines[i]) = {}) => AllZero(Get(embedding))
            /\ (\A k \in DOMAIN store : ~store[k].is_error) => AllZero(Get(embedding))

\* a line matched by a pattern of a snapshot without error patterns
C8_Witness ==
    /\ Embedded
    /\ store # <<>>
    /\ \A k \in DOMAIN store : ~store[k].is_error
    /\ \E i \in NonBlankLines : \E k \in DOMAIN store : matches(store[k], LogLines[i])

\* the places where the log can be cut at a line boundary
LineBoundaries(log) == {0, Len(log)} \cup {k \in DOMAIN log : log[k] = NL}

RECURSIVE SumOfLineEmbeddings(_, _)
SumOfLineEmbeddings(lines, i) ==
    IF i > Len(lines) THEN np_zeros(dimension)
    ELSE VecAdd(generate_embedding(lines[i]), SumOfLineEmbeddings(lines, i + 1))

\* C9: additivity: the embedding of a log is the coordinate-wise sum of the
\* embeddings of its single lines, and of the two parts of every cut at a line
\* boundary.
C9_Additive ==
    Embedded =>
        LET log == Get(log_content)
        IN  /\ Get(embedding) = SumOfLineEmbeddings(splitlines(log), 1)
            /\ \A k \in LineBoundaries(log) :
                   Get(embedding) = VecAdd(generate_embedding(SubSeq(log, 1, k)), generate_embedding(SubSeq(log, k + 1, Len(log))))

\* a log of two counted lines
C9_Witness ==
    /\ Embedded
    /\ Cardinality(NonBlankLines) = 2
    /\ \E i \in DOMAIN Get(embedding) : Get(embedding)[i] = 2

RECURSIVE JoinLines(_)
JoinLines(lines) ==
    IF lines = <<>> THEN <<>>
    ELSE IF Len(lines) = 1 THEN lines[1]
    ELSE lines[1] \o <<NL>> \o JoinLines(Tail(lines))

\* the log with its blank lines removed
WithoutBlankLines(log) == JoinLines(SelectSeq(splitlines(log), LAMBDA s : ~Blank(s)))

\* C10: empty and whitespace-only lines are never counted: the embedding of a
\* log is the embedding of the log with its blank lines removed, so logs that
\* differ only in blank lines have the same embedding.
C10_BlankLinesIgnored ==
    Embedded => Get(embedding) = generate_embedding(WithoutBlankLines(Get(log_content)))

\* a log with a whitespace-only line that a pattern matches, and a counted line
C10_Witness ==
    /\ Embedded
    /\ \E i \in DOMAIN LogLines : LogLines[i] # <<>> /\ Blank(LogLines[i]) /\ \E k \in DOMAIN store : matches(store[k], LogLines[i]) /\ store[k].is_error
    /\ \E i \in DOMAIN Get(embedding) : Get(embedding)[i] > 0


-----------------------------------------------------------------------------
(* Properties of the ingestion scripts (SpecIngest) *)

Parsing == program \in {"llm_parser", "interactive_parser"}

\* C11: while one log is processed by LLMParser or InteractiveParser, no two
\* add_pattern calls store the same regex: a regex proposed again is written
\* once.
C11_OneWritePerRegex ==
    Parsing => \A i, j \in DOMAIN writes : writes[i].regex = writes[j].regex => i = j


\* C12: a regex that does not compile is never written to the store, whatever
\* the oracle replies and whatever is typed at the prompts of
\* interactive_parser.py and add_pattern.py.
C12_InvalidRegexNeverStored ==
    \A i \in DOMAIN store : re_compile(store[i].regex)

\* C13: a regex that compiles but does not match the line it was proposed for
\* is written to the store only after 'y' was answered to "Use this
\* non-matching pattern anyway?".
C13_NonMatchingOnlyByOverride ==
    \A i \in DOMAIN writes :
        re_match(writes[i].regex, writes[i].line) = "nomatch" => writes[i].override


\* the list the running parser classifies the lines of the log with
InMemoryList ==
    IF program = "llm_parser" THEN (IF _patterns = None THEN <<>> ELSE Get(_patterns))
    ELSE patterns

\* the line at line_num has been classified
CurrentClassified == caller # "none" /\ line_num > 0 /\ line = log_lines[line_num]

\* a new pattern is being asked for: the oracle was consulted for the line, or
\* InteractiveParser is between "Create new pattern?" and add_pattern
Proposing ==
    \/ program = "llm_parser" /\ asked
    \/ program = "interactive_parser" /\ pc \notin {"run", "lines", "continue_prompt", "done"}

\* the add_pattern calls made for earlier lines of the log whose regex matches
\* the current line
EarlierMatchingWrites == {i \in DOMAIN writes : writes[i].line_num < line_num /\ re_match(writes[i].regex, line) = "match"}

\* C14: a pattern stored while a log is processed is in the in-memory list
\* (the LLMParser cache, the re-read list of InteractiveParser) for the rest
\* of the log, and a later line it matches is classified as matched and no
\* new pattern is asked for.
C14_IngestedPatternsUsed ==
    (Parsing /\ log_file # None) =>
        /\ \A i \in DOMAIN writes : \E k \in DOMAIN InMemoryList :
               /\ InMemoryList[k].id = writes[i].id
               /\ InMemoryList[k].regex = writes[i].regex
        /\ (CurrentClassified /\ EarlierMatchingWrites # {}) => (matching_pattern # None /\ ~Proposing)

\* LLMParser matched a line with the pattern it had stored for an earlier line
\* of the same log
C14_Witness ==
    /\ program = "llm_parser"
    /\ log_file # None
    /\ CurrentClassified
    /\ matching_pattern # None
    /\ \E i \in EarlierMatchingWrites : writes[i].id = Get(matching_pattern).id


\* C19: whatever the oracle call comes back with (a failed request, a reply
\* that is no JSON, a reply without utility_name or regex), LLMParser goes on
\* with the run: no exception ends it.
C19_OracleFailureNotFatal ==
    program = "llm_parser" => pc # "crashed"


-----------------------------------------------------------------------------
(* Properties of the review flag and of the ids (SpecReview, Spec) *)

\* C15 as stated: need_reviewing is true from creation until mark_reviewed
\* addresses the pattern and false ever after, and a deleted pattern is never
\* in the table again.
C15_ReviewNeverUndone ==
    \A i \in DOMAIN store :
        /\ store[i].need_reviewing <=> store[i].stamp \notin reviewed
        /\ store[i].stamp \notin deleted

\* C15: need_reviewing is true from creation and becomes false only when
\* mark_reviewed addresses the pattern; a reviewed pattern needs review again
\* only after update_utilities replaced its utility name by 'unknown'; a
\* pattern can be deleted in either state and is never in the table again.
C15_ReviewUndoneOnlyByUpdateUtilities ==
    \A i \in DOMAIN store :
        /\ store[i].stamp \notin reviewed => store[i].need_reviewing
        /\ (store[i].stamp \in reviewed /\ store[i].need_reviewing) => store[i].utility_name = Unknown
        /\ store[i].stamp \notin deleted

\* a reviewed pattern that update_utilities sent back to review, after one
\* pattern was deleted in each state
C15_Witness ==
    /\ \E i \in DOMAIN store : store[i].stamp \in reviewed /\ store[i].need_reviewing
    /\ \E i \in DOMAIN store : store[i].stamp \in reviewed /\ ~store[i].need_reviewing
    /\ deleted \cap reviewed # {}


\* the table with need_reviewing of row i set to flags[i]
Reflagged(rows, flags) == [i \in DOMAIN rows |-> [rows[i] EXCEPT !.need_reviewing = flags[i]]]

\* two classification results name the same pattern but for need_reviewing
SameButFlag(a, b) ==
    /\ (a = None) <=> (b = None)
    /\ a # None => [Get(a) EXCEPT !.need_reviewing = TRUE] = [Get(b) EXCEPT !.need_reviewing = TRUE]

\* C18: a pattern table and any table that differs from it only in
\* need_reviewing classify every line alike (parse_line and the LLMParser
\* loop) and give the same embedding for every log; and mark_reviewed(id)
\* changes nothing but need_reviewing of the pattern with that id.
C18_ReviewFlagInert ==
    /\ \A flags \in [DOMAIN store -> BOOLEAN] :
           LET other == Reflagged(store, flags)
           IN  /\ \A s \in Lines :
                      /\ SameButFlag(parse_line(s, other).pattern, parse_line(s, store).pattern)
                      /\ SameButFlag(llm_match(s, other), llm_match(s, store))
               /\ \A log \in SnapshotLogs : embedding_on(other, log) = embedding_on(store, log)
    /\ \A id \in 1..MaxReviewAdds :
           mark_reviewed(store, id) = [i \in DOMAIN store |-> IF store[i].id = id THEN [store[i] EXCEPT !.need_reviewing = FALSE] ELSE store[i]]

\* after a mark_reviewed call the table holds a reviewed and an unreviewed
\* pattern, both matching one line, and an error pattern that is counted
C18_Witness ==
    /\ reviewed # {}
    /\ \E i, j \in DOMAIN store : store[i].need_reviewing /\ ~store[j].need_reviewing /\ matches(store[i], <<"a">>) /\ matches(store[j], <<"a">>)
    /\ \E k \in DOMAIN embedding_on(store, <<"a">>) : embedding_on(store, <<"a">>)[k] > 0


\* C16: the id add_pattern returns differs from every id it returned before,
\* whatever adds and deletes went between.
C16_IdsNeverReused ==
    \A i, j \in DOMAIN issued : issued[i] = issued[j] => i = j


-----------------------------------------------------------------------------
(* Properties of the generator's snapshot (SpecSnapshot) *)

\* C17: the grouping, the utility index and the dimension of a constructed
\* EmbeddingGenerator are those of the table it was constructed from, and
\* generate_embedding returns what that table gives, whatever add_pattern,
\* delete_pattern and mark_reviewed did to the store since.
C17_SnapshotFixed ==
    _utility_mapping # None =>
        LET groups == group_by_utility(snapshot, 1, <<>>)
        IN  /\ _patterns_by_utility = groups
            /\ Get(_utility_mapping) = enumerate_mapping(sorted(keys(groups)))
            /\ dimension = Cardinality({snapshot[i].utility_name : i \in DOMAIN snapshot})
            /\ \A log \in SnapshotLogs : generate_embedding(log) = embedding_on(snapshot, log)
            /\ embedding # None => Get(embedding) = embedding_on(snapshot, Get(log_content))

\* an embedding returned after the utilities of the store changed and a
\* pattern was marked reviewed, which a generator built now would not return
C17_Witness ==
    /\ embedding # None
    /\ {store[i].utility_name : i \in DOMAIN store} # {snapshot[i].utility_name : i \in DOMAIN snapshot}
    /\ Get(embedding) # embedding_on(store, Get(log_content))
    /\ \E i \in DOMAIN store : ~store[i].need_reviewing


-----------------------------------------------------------------------------
(* Invalid regexes in the generator's snapshot (SpecEmbed) *)

\* the table without the patterns whose regex does not compile
ValidOnly(table) == SelectSeq(table, LAMBDA p : re_compile(p.regex))

\* C20 as stated: the embedding is the vector a generator constructed on the
\* snapshot without its invalid patterns returns for the log.
C20_EqualsWithoutInvalid ==
    Embedded => Get(embedding) = embedding_on(ValidOnly(snapshot), Get(log_content))

\* C20: an invalid regex is a non-match in generate_embedding and is skipped:
\* the coordinate of every utility is its coordinate in the embedding of the
\* snapshot without the invalid patterns, and 0 for a utility that has only
\* invalid patterns (it keeps its coordinate in the vector).
C20_InvalidSkipped ==
    Embedded =>
        LET valid == ValidOnly(snapshot)
            other == embedding_on(valid, Get(log_content))
            index == enumerate_mapping(sorted(keys(group_by_utility(valid, 1, <<>>))))
        IN  \A u \in DOMAIN Get(_utility_mapping) :
                Coordinate(u) = IF u \in DOMAIN index THEN other[index[u] + 1] ELSE 0

\* a counted line whose utility lists an invalid regex before the error
\* pattern that matched
C20_Witness ==
    /\ Embedded
    /\ \E i, j \in DOMAIN snapshot :
           /\ i < j
           /\ ~re_compile(snapshot[i].regex)
           /\ snapshot[j].utility_name = snapshot[i].utility_name
           /\ Coordinate(snapshot[j].utility_name) > 0

-----------------------------------------------------------------------------
(* Properties of repeated classification (SpecClassify) *)

\* a parse_line call of process_log has returned
ParsedLine == caller = "parse_line"

consuming(regex) == SelectSeq(regex, LAMBDA tok : tok \notin {"^", "$", "(", ")"})

\* the number of characters consumed before token k of the regex
consumed_before(regex, k) == Len(consuming(SubSeq(regex, 1, k - 1)))

\* the regex is satisfied by the first n characters of s: its consuming
\* tokens are those n characters in turn, every ^ stands where nothing has
\* been consumed and every $ where the line ends
satisfied_by_prefix(regex, s, n) ==
    /\ Len(consuming(regex)) = n
    /\ \A j \in 1..n : IF consuming(regex)[j] = "." THEN s[j] # NL ELSE s[j] = consuming(regex)[j]
    /\ \A k \in DOMAIN regex :
        /\ regex[k] = "^" => consumed_before(regex, k) = 0
        /\ regex[k] = "$" => (consumed_before(regex, k) = Len(s) \/ (consumed_before(regex, k) = Len(s) - 1 /\ s[Len(s)] = NL))

\* C22: matches has prefix semantics: a pattern of the list matches the line
\* exactly when its regex compiles and some prefix of the line, from position
\* 0, satisfies it; so ^a accepts "ab", and b, which occurs only later in
\* "ab", does not match it
C22_PrefixSemantics ==
    ParsedLine =>
        \A i \in DOMAIN patterns :
            /\ matches(patterns[i], line) <=> (re_compile(patterns[i].regex) /\ \E n \in 0..Len(line) : satisfied_by_prefix(patterns[i].regex, line, n))
            /\ (patterns[i].regex = RegexA /\ line = <<"a", "b">>) => matches(patterns[i], line)
            /\ (patterns[i].regex = RegexB /\ line = <<"a", "b">>) => ~matches(patterns[i], line)
            /\ (patterns[i].regex = RegexAOnly /\ line = <<"a", "b">>) => ~matches(patterns[i], line)

\* "ab" was classified against the list (b, ^a): b was passed over and ^a returned
C22_Witness ==
    /\ ParsedLine
    /\ line = <<"a", "b">>
    /\ Len(patterns) = 2
    /\ patterns[1].regex = RegexB
    /\ patterns[2].regex = RegexA
    /\ matching_pattern = Some(patterns[2])

-----------------------------------------------------------------------------
(* Cancelling a pattern in add_pattern.py (SpecIngest) *)

\* C23: in add_pattern.py, "3. Cancel pattern creation" after a failed
\* validation cancels the creation: no add_pattern call is made for the
\* rejected regex, so every row the script wrote holds a regex that passed
\* validate_regex for the line it was entered for.
C23_CancelMakesNoWrite ==
    program = "add_pattern" =>
        \A i \in DOMAIN writes :
            /\ validate_regex(writes[i].regex, writes[i].line)
            /\ \E k \in DOMAIN store : store[k].id = writes[i].id /\ validate_regex(store[k].regex, writes[i].line)

-----------------------------------------------------------------------------
(* The end of LLMParser.run (SpecIngest) *)

\* LLMParser.run has ended: process_unprocessed_log returned False, or an
\* exception left it
RunEnded == program = "llm_parser" /\ pc \in {"done", "crashed"}

\* C24: LLMParser.run terminates with every log processed: when run has ended
\* no unprocessed log is left, and while it runs the log being processed is an
\* unprocessed one.
C24_RunEndsWithEveryLogProcessed ==
    /\ RunEnded => unprocessed_logs = {}
    /\ (program = "llm_parser" /\ pc = "lines") => Get(log_file) \in unprocessed_logs

\* the part of C24 about single calls: a step of the run never turns a
\* processed log into an unprocessed one, and the step that returns True marks
\* exactly the log it had selected, which was unprocessed
C24_OneLogPerCall ==
    [][program = "llm_parser" =>
        /\ \A i \in DOMAIN logs : logs[i].processed => logs'[i].processed
        /\ (pc = "lines" /\ pc' = "run") =>
            /\ Get(log_file) \in unprocessed_logs
            /\ unprocessed_logs' = unprocessed_logs \ {Get(log_file)}]_vars

-----------------------------------------------------------------------------
(* The duplicate test of process_unprocessed_log (SpecIngest) *)

\* LLMParser is inside the loop over the lines of a log
InLines == program = "llm_parser" /\ pc = "lines"

\* self.patterns as the loop reads it
CachedPatterns == IF _patterns = None THEN get_all_patterns ELSE Get(_patterns)

\* C25: the branch "Pattern already created in this file" is unreachable:
\* every regex of new_patterns is the regex of a cached pattern, and for the
\* line the loop takes next no oracle reply leads into the branch, that is, no
\* reply is accepted for a line without cached match with a regex that is
\* already in new_patterns.
C25_DuplicateBranchUnreachable ==
    InLines =>
        /\ \A r \in new_patterns : \E i \in DOMAIN CachedPatterns : CachedPatterns[i].regex = r
        /\ line_num < Len(log_lines) =>
            \A reply \in OracleReplies :
                LET s == log_lines[line_num + 1]
                    result == analyze_line_with_llm(s, reply).result
                IN  (~is_blank(s) /\ llm_match(s, CachedPatterns) = None /\ result # None) => Get(result)[1] \notin new_patterns

\* the test `regex not in new_patterns` was made with a regex already in the
\* set: a second pattern was created in the same file
C25_Witness ==
    /\ InLines
    /\ Cardinality(new_patterns) = 2
    /\ Len(writes) = 2
    /\ asked

-----------------------------------------------------------------------------
(* The LLMParser cache and the store (SpecCache) *)

\* C26: with LLMParser as the only writer, self.patterns holds the patterns
\* get_all_patterns returns, with the same ids and in the same order, after
\* every _update_patterns call, whether the cache was loaded before the call
\* or is loaded on the next read.
C26_CacheEqualsStore == CachedPatterns = get_all_patterns

\* the cache is loaded, holds three patterns, and the last operation was an
\* _update_patterns call, which appended the last of them
C26_Witness ==
    /\ _patterns # None
    /\ Len(Get(_patterns)) >= 3
    /\ caller = "none"
    /\ Get(_patterns)[1].regex # Get(_patterns)[Len(Get(_patterns))].regex

-----------------------------------------------------------------------------
(* Patterns ingested through the LLM path (SpecIngest) *)

\* C27: every pattern LLMParser stores has is_error = False and
\* need_reviewing = True, whatever the line and the oracle's reply; so on a
\* store populated by LLMParser alone the embedding of every log is all zero.
C27_LLMPatternsNeverCount ==
    program = "llm_parser" =>
        /\ \A i \in DOMAIN store : ~store[i].is_error /\ store[i].need_reviewing
        /\ \A log \in SessionTexts \cup SnapshotLogs : AllZero(embedding_on(store, log))

\* LLMParser has stored two patterns of one utility, one of them matches "a",
\* and the embedding of "a\na" has a coordinate for the utility
C27_Witness ==
    /\ program = "llm_parser"
    /\ \E i \in DOMAIN store : matches(store[i], <<"a">>)
    /\ Len(embedding_on(store, TextSameLine)) = 1
    /\ Len(store) = 2

-----------------------------------------------------------------------------
(* The table layout after _init_db (SpecInitDb) *)

\* C28: after _init_db the table has the five columns id, regex,
\* utility_name, is_error, need_reviewing, also when it existed before
\* without need_reviewing, so that get_pattern and get_all_patterns can read
\* their rows.
C28_InitDbMigratesLegacyTable ==
    (program = "log_patterns" /\ pc # "init_db") =>
        /\ columns = CurrentColumns
        /\ pc # "crashed"

=============================================================================
